---- MODULE Spec2Model ----
(***************************************************************************)
(* Model of the note bot of src/max_bot.py and of the merge oracle of      *)
(* src/ai_processing.py: the per-user session records (user_states), the   *)
(* repository (subjects, notes, users), the pending buckets and the drain  *)
(* loop that merges them into a note through generate_updated_note.        *)
(*                                                                         *)
(* Texts are sequences of tokens <<kind, n>>; the empty sequence is the    *)
(* empty string.  The oracle is a black box: the model takes the instance  *)
(* that appends what it was given, so that two contents are equal only     *)
(* when the same items were merged in the same order.                      *)
(*                                                                         *)
(* Handlers are atomic up to their long awaits: the executor calls of the  *)
(* merge and diff oracles and asyncio.sleep are the points where other     *)
(* events interleave; sending a chat message and downloading an image are  *)
(* taken as immediate.  One drain loop per user is modelled: 'done' is     *)
(* taken only when no earlier loop of the user is still in flight.         *)
(* Repository reads and writes succeed in Spec and SoloSpec; in FaultSpec  *)
(* the scratch files may fail to be written or deleted, subjects.json may  *)
(* fail to be read and conspects.json may fail to be written.  NavSpec     *)
(* renders and parses button payloads and note pages; InputSpec adds the   *)
(* start command, the course choice and a second text; ChoiceSpec starts   *)
(* from a subject of two notes.                                            *)
(* The recursion limit of process_next_item is not modelled.               *)
(***************************************************************************)
EXTENDS Integers, Sequences, FiniteSets, TLC

\* ----------------------------------------------------------------- bounds
NumUsers == 2
MaxCourse == 1
MaxText == 1
MaxNotes == 1
MaxItems == 3
MaxShared == 2
MaxAttach == 1

\* The courses of the course menu.
NumCourses == 4

Users == 1..NumUsers
Courses == 1..MaxCourse
Texts == 1..MaxText
NoteIds == 1..MaxNotes

\* ------------------------------------------------------------ UserState
WAITING_FOR_SUBJECT_NAME == "waiting_for_subject_name"
WAITING_FOR_CONSPECT_NAME == "waiting_for_conspect_name"
WAITING_FOR_CONSPECT_DATA == "waiting_for_conspect_data"
WAITING_FOR_VERSION_CHOICE == "waiting_for_version_choice"
PROCESSING_DATA == "processing_data"
NoState == "none"

\* ---------------------------------------------------------------- texts
Raw(t) == << <<"raw", t>> >>
ErrorText == << <<"error", 0>> >>
NoItem == <<"none", 0>>
TextItem == <<"text", 0>>

\* A session record: one dict of user_states.  Every record carries every
\* field; which keys the dict really holds follows from its state, and a
\* read of a key it lacks (KeyError) is modelled where the code does it.
\* Blank is both "no entry for the user" and the {} of user_states.get(u, {}).
Blank ==
  [state |-> NoState, course |-> 0, subject |-> 0, conspect_id |-> 0,
   conspect_name |-> 0, attachments |-> <<>>, urls |-> <<>>,
   text_data |-> <<>>, old_content |-> <<>>, current_content |-> <<>>,
   new_content |-> <<>>]

\* ------------------------------------------------------------ repository
NoNote == [id |-> 0, name |-> 0, content |-> <<>>]

get_subject_key(course, subject) == <<course, subject>>

SubjectKeys == Courses \X Texts

InSeq(x, sq) == \E i \in 1..Len(sq) : sq[i] = x

\* add_subject: the subjects after the call; the name is appended only when
\* the course does not hold it yet.
\* A variant of add_subject without the membership test.
add_subject_always(subj, course, subject_name) ==
  [subj EXCEPT ![course] = Append(@, subject_name)]

add_subject(subj, course, subject_name) ==
  IF InSeq(subject_name, subj[course]) THEN subj
  ELSE [subj EXCEPT ![course] = Append(@, subject_name)]

AllNotes(consp) == UNION {{consp[k][i] : i \in 1..Len(consp[k])} : k \in SubjectKeys}

\* uuid.uuid4(): an identifier no stored note has.
FreshId(consp) == Cardinality(AllNotes(consp)) + 1

\* A variant of add_conspect_to_subject that files the note twice.
add_conspect_to_subject_twice(consp, course, subject, conspect_name, conspect_id) ==
  [consp EXCEPT ![get_subject_key(course, subject)] =
     @ \o << [id |-> conspect_id, name |-> conspect_name, content |-> <<>>],
             [id |-> conspect_id, name |-> conspect_name, content |-> <<>>] >>]

add_conspect_to_subject(consp, course, subject, conspect_name, conspect_id) ==
  [consp EXCEPT ![get_subject_key(course, subject)] =
     Append(@, [id |-> conspect_id, name |-> conspect_name, content |-> <<>>])]

get_conspects_by_subject(consp, course, subject) ==
  IF get_subject_key(course, subject) \in SubjectKeys
  THEN consp[get_subject_key(course, subject)] ELSE <<>>

FirstWithId(notes, conspect_id) ==
  IF \E i \in 1..Len(notes) : notes[i].id = conspect_id
  THEN CHOOSE i \in 1..Len(notes) :
         /\ notes[i].id = conspect_id
         /\ \A j \in 1..(i - 1) : notes[j].id # conspect_id
  ELSE 0

\* A variant of get_conspect_by_id that answers for a note it does not find.
get_conspect_by_id_any(consp, course, subject, conspect_id) ==
  LET notes == get_conspects_by_subject(consp, course, subject)
      i == FirstWithId(notes, conspect_id)
  IN IF i = 0 THEN [id |-> conspect_id, name |-> 0, content |-> <<>>]
     ELSE notes[i]

get_conspect_by_id(consp, course, subject, conspect_id) ==
  LET notes == get_conspects_by_subject(consp, course, subject)
      i == FirstWithId(notes, conspect_id)
  IN IF i = 0 THEN NoNote ELSE notes[i]

\* A variant of update_conspect_content that stores nothing.
update_conspect_content_unsaved(consp, course, subject, conspect_id, new_content) ==
  consp

update_conspect_content(consp, course, subject, conspect_id, new_content) ==
  LET notes == get_conspects_by_subject(consp, course, subject)
      i == FirstWithId(notes, conspect_id)
  IN IF i = 0 THEN consp
     ELSE [consp EXCEPT ![get_subject_key(course, subject)][i].content = new_content]

\* The stored content of the note with this id, wherever it is filed.
StoredContent(consp, conspect_id) ==
  IF \E n \in AllNotes(consp) : n.id = conspect_id
  THEN (CHOOSE n \in AllNotes(consp) : n.id = conspect_id).content
  ELSE <<>>

\* The versions cleanup_temp_files goes through, in its order.
Versions == <<"old", "new", "diff">>

\* A variant of cleanup_temp_filesWith without the try inside the loop: the
\* first os.remove that raises ends the cleanup.
cleanup_temp_files_abort(files, conspect_id, failing) ==
  LET stops(i) == <<conspect_id, Versions[i]>> \in files /\ Versions[i] \in failing
      reached(i) == \A j \in 1..(i - 1) : ~stops(j)
  IN files \ {<<conspect_id, Versions[i]>> : i \in {k \in 1..3 : reached(k) /\ ~stops(k)}}

\* cleanup_temp_files when os.remove raises for the versions in failing:
\* each version is tried on its own, a failure is logged and the file stays.
cleanup_temp_filesWith(files, conspect_id, failing) ==
  files \ {<<conspect_id, Versions[i]>> : i \in {k \in 1..3 : Versions[k] \notin failing}}

\* What cleanup_temp_files logs: the files it could not delete.
cleanup_log(files, conspect_id, failing) ==
  {"log_undeleted_" \o v : v \in {w \in failing : <<conspect_id, w>> \in files}}

cleanup_temp_files(files, conspect_id) == cleanup_temp_filesWith(files, conspect_id, {})

\* ---------------------------------------------------------- merge oracle
\* How one generate_updated_note call can end.
\*   "ok":     generate_content answered and its text is returned;
\*   "failed": the function caught the failure (of generate_content, lines
\*             101-105, or of Image.open, lines 90-98) and RETURNED the error
\*             text in place of a note;
\*   "raise":  an exception left the function (genai.configure, the model
\*             constructor, trafilatura, or the slice of the None that
\*             trafilatura.extract returned, lines 31-34 and 83-86).
Outcomes == {"ok", "failed", "raise"}

\* The text generate_updated_note returns when it does not raise.
generate_updated_note(current_note, topic_name, new_data_type, new_data_content, outcome) ==
  IF outcome = "failed" THEN ErrorText
  ELSE IF new_data_type = "text" THEN current_note \o new_data_content
  ELSE Append(current_note, <<new_data_type, new_data_content>>)


VARIABLES
  user_states,   \* user -> session record, Blank when the user has none
  subjects,      \* subjects.json: course -> sequence of subject names
  conspects,     \* conspects.json: <<course, subject>> -> sequence of notes
  users,         \* users.json: user -> course, 0 when none is stored
  txt_files,     \* data/txt_conspects: the set of <<note id, version>> files
  task,          \* user -> the user's drain loop (process_next_item chain)
  budget,        \* how many more pending items the model lets users send
  hist,          \* user -> what the current drain was given and did
  last,          \* the event handled by the last step and what it sent
  nav            \* a button or note list being rendered and parsed (NavSpec)

vars == <<user_states, subjects, conspects, users, txt_files, task, budget, hist, last, nav>>

\* ------------------------------------------------------------ drain loop
\* task[u] is the chain of process_next_item calls of user u, suspended at
\* one of its long awaits:
\*   "call"  in run_in_executor for `item` (process_text_data,
\*           process_url_data, process_image_data);
\*   "sleep" in asyncio.sleep(1) before the next process_next_item;
\*   "diff"  in run_in_executor for generate_diff_summary (finalize_processing);
\*   "idle"  no loop is running.
\* The loop works on its local `state`, the dict it fetched from user_states.
\* live says that this dict is still the user's entry of user_states; when a
\* handler assigns or deletes that entry the loop keeps the old dict (st).
IdleTask == [pc |-> "idle", live |-> FALSE, st |-> Blank, item |-> NoItem]

SleepTask == [pc |-> "sleep", live |-> FALSE, st |-> Blank, item |-> NoItem]

MkTask(pc, live, s, item) ==
  CASE pc = "idle" -> IdleTask
    [] pc = "sleep" -> SleepTask
    [] OTHER -> [pc |-> pc, live |-> live, st |-> IF live THEN Blank ELSE s,
                 item |-> item]

View(u) == IF task[u].live THEN user_states[u] ELSE task[u].st

\* The loop of u after a handler has assigned or deleted user_states[u].
Detached(u) ==
  IF task[u].live THEN [task[u] EXCEPT !.live = FALSE, !.st = user_states[u]]
  ELSE task[u]

NoPending == [text_data |-> <<>>, urls |-> <<>>, attachments |-> <<>>]

\* hist[u]: the pending set the current drain of u was started with; the
\* stored content of the note when it started (snapshot); whether a save_new
\* of another session has written the note since (overwritten); and the
\* items the drain took in order, each with how it ended: "called" while the
\* oracle call is in flight, then the call's outcome; "missing" for an image
\* dropped without a call.  A call of the item the log already ends with (a
\* retry) rewrites that entry.
NoHist ==
  [accepted |-> NoPending, note |-> 0, snapshot |-> <<>>, overwritten |-> FALSE,
   log |-> <<>>]

Logged(log, item, how) ==
  IF log # <<>> /\ log[Len(log)][1] = item
  THEN [log EXCEPT ![Len(log)] = <<item, how>>]
  ELSE Append(log, <<item, how>>)

\* A variant of NextBranch that takes images before URLs.
NextBranch_imagesFirst(s) ==
  IF s.text_data # <<>> /\ s.text_data # s.old_content THEN "text"
  ELSE IF s.attachments # <<>> THEN "image"
  ELSE IF s.urls # <<>> THEN "url"
  ELSE "none"

\* process_next_item, lines 561-571: the bucket the next item is taken from.
NextBranch(s) ==
  IF s.text_data # <<>> /\ s.text_data # s.old_content THEN "text"
  ELSE IF s.urls # <<>> THEN "url"
  ELSE IF s.attachments # <<>> THEN "image"
  ELSE "none"

StillPending(s) == s.text_data # <<>> \/ s.urls # <<>> \/ s.attachments # <<>>

\* process_next_item, lines 573-578, with finalize_processing up to its
\* await of the diff oracle: sleep and go round again, or save the old and
\* new files and ask for the diff.  A dict without old_content and
\* current_content raises KeyError in finalize_processing and ends the loop.
\* saved: both save_txt_file calls returned a path.
AfterItem(s, saved) ==
  IF StillPending(s) THEN [pc |-> "sleep", files |-> {}, msgs |-> {}]
  ELSE IF s.state # PROCESSING_DATA
       THEN [pc |-> "idle", files |-> {}, msgs |-> {}]
  ELSE IF ~saved
       THEN [pc |-> "idle", files |-> {}, msgs |-> {}]
  ELSE [pc |-> "diff",
        files |-> {<<s.conspect_id, "old">>, <<s.conspect_id, "new">>},
        msgs |-> {"analysing"}]

\* One pass of process_next_item from its fetch of `state` to its next long
\* await.  exists: os.path.exists(image_path) for the image taken.
IterRun(s, exists, saved) ==
  LET b == NextBranch(s)
      s2 == CASE b = "url" -> [s EXCEPT !.urls = Tail(@)]
              [] b = "image" -> [s EXCEPT !.attachments = Tail(@)]
              [] OTHER -> s
      item == CASE b = "text" -> TextItem
                [] b = "url" -> <<"url", Head(s.urls)>>
                [] b = "image" -> <<"image", Head(s.attachments)>>
                [] OTHER -> NoItem
      calls == b \in {"text", "url"} \/ (b = "image" /\ exists)
      fin == AfterItem(s2, saved)
  IN [s |-> s2,
      pc |-> IF calls THEN "call" ELSE fin.pc,
      item |-> IF calls THEN item ELSE NoItem,
      files |-> IF calls THEN {} ELSE fin.files,
      msgs |-> IF calls THEN {"processing_" \o b} ELSE fin.msgs,
      result |-> IF calls THEN <<item, "called">>
                 ELSE IF b = "image" THEN <<item, "missing">>
                 ELSE <<NoItem, "">>]

\* A variant of ReturnRun that puts a URL or an image whose call raised
\* back at the head of its bucket.
ReturnRun_retry(s, item, outcome, saved) ==
  LET kind == item[1]
      eff == IF s.state # PROCESSING_DATA THEN "raise" ELSE outcome
      payload == IF kind = "text" THEN s.text_data ELSE item[2]
      s2 == IF eff = "raise"
            THEN CASE kind = "url" -> [s EXCEPT !.urls = <<item[2]>> \o @]
                   [] kind = "image" -> [s EXCEPT !.attachments = <<item[2]>> \o @]
                   [] OTHER -> s
            ELSE [s EXCEPT
                    !.current_content =
                       generate_updated_note(s.current_content, s.conspect_name,
                                             kind, payload, eff),
                    !.text_data = IF kind = "text" THEN <<>> ELSE @]
      fin == AfterItem(s2, saved)
  IN [s |-> s2, pc |-> fin.pc, item |-> NoItem, files |-> fin.files,
      msgs |-> {(IF eff = "raise" THEN "error_" ELSE "done_") \o kind} \cup fin.msgs,
      result |-> <<item, eff>>]

\* process_text_data / process_url_data / process_image_data from the return
\* of the executor call on, then the rest of process_next_item.  The closure
\* reads state['current_content']: on a dict without it the call raises.
ReturnRun(s, item, outcome, saved) ==
  LET kind == item[1]
      eff == IF s.state # PROCESSING_DATA THEN "raise" ELSE outcome
      payload == IF kind = "text" THEN s.text_data ELSE item[2]
      s2 == IF eff = "raise" THEN s
            ELSE [s EXCEPT
                    !.current_content =
                       generate_updated_note(s.current_content, s.conspect_name,
                                             kind, payload, eff),
                    !.text_data = IF kind = "text" THEN <<>> ELSE @]
      fin == AfterItem(s2, saved)
  IN [s |-> s2, pc |-> fin.pc, item |-> NoItem, files |-> fin.files,
      msgs |-> {(IF eff = "raise" THEN "error_" ELSE "done_") \o kind} \cup fin.msgs,
      result |-> <<item, eff>>]

\* The record after one run of the loop on the dict s; kept only while the
\* loop works on a PROCESSING_DATA dict.
HistAfter(h, s, run) ==
  IF s.state # PROCESSING_DATA THEN h
  ELSE IF run.result[1] = NoItem THEN h
  ELSE [h EXCEPT !.log = Logged(@, run.result[1], run.result[2])]

\* The record is dropped when a handler assigns or deletes the session of a
\* user whose loop has ended: the merge it describes is over.
Forget(u) == IF task[u].pc = "idle" THEN [hist EXCEPT ![u] = NoHist] ELSE hist

\* last: the handler or loop step that ran last, for whom, which way it went
\* and the messages it sent.  An event the handler returns from without
\* sending or changing anything is recorded as Ignored.
Event(op, u, act, msgs) == [op |-> op, user |-> u, act |-> act, msgs |-> msgs]

Ignored == Event("ignored", 0, "", {})

\* nav outside the rendering of buttons and note lists.
NoNav == [op |-> "none"]

InitWith(items, navs) ==
  /\ user_states = [u \in Users |-> Blank]
  /\ subjects = [c \in Courses |-> <<>>]
  /\ conspects = [k \in SubjectKeys |-> <<>>]
  /\ users = [u \in Users |-> 0]
  /\ txt_files = {}
  /\ task = [u \in Users |-> IdleTask]
  /\ budget = items
  /\ hist = [u \in Users |-> NoHist]
  /\ last = Event("init", 0, "", {})
  /\ nav \in navs

\* ------------------------------------------------------- message handlers
InputStates ==
  {WAITING_FOR_SUBJECT_NAME, WAITING_FOR_CONSPECT_NAME, WAITING_FOR_CONSPECT_DATA}

\* handle_message -> handle_cancel: the text 'отмена' / 'cancel' / 'отменить'.
MsgCancel(u) ==
  LET s == user_states[u]
      cancels == s.state \in InputStates
  IN /\ user_states' = IF cancels THEN [user_states EXCEPT ![u] = Blank]
                       ELSE user_states
     /\ task' = IF cancels THEN [task EXCEPT ![u] = Detached(u)] ELSE task
     /\ hist' = IF cancels THEN Forget(u) ELSE hist
     /\ last' = IF cancels THEN Event("msg_cancel", u, s.state, {"cancelled"})
                ELSE Ignored
     /\ UNCHANGED <<subjects, conspects, users, nav, txt_files, budget>>

\* handle_message -> handle_subject_name_input with the text t.
MsgSubjectName(u, t) ==
  LET s == user_states[u]
  IN /\ s.state = WAITING_FOR_SUBJECT_NAME
     /\ subjects' = add_subject(subjects, s.course, t)
     /\ user_states' = [user_states EXCEPT ![u] = Blank]
     /\ task' = [task EXCEPT ![u] = Detached(u)]
     /\ hist' = Forget(u)
     /\ last' = Event("msg_subject_name", u, "",
                      IF InSeq(t, subjects[s.course]) THEN {"subject_exists"}
                      ELSE {"subject_added"})
     /\ UNCHANGED <<conspects, users, nav, txt_files, budget>>

\* handle_message -> handle_conspect_name_input; t = 0 is the empty text.
\* saved = FALSE: the write of conspects.json in save_json_data fails, the
\* exception is caught and logged there, and add_conspect_to_subject returns
\* the new id all the same.  The id of a note that was not stored is the
\* next id again; uuid4 would not repeat it.
MsgConspectNameWith(u, t, saved) ==
  LET s == user_states[u]
      conspect_id == FreshId(conspects)
  IN /\ s.state = WAITING_FOR_CONSPECT_NAME
     /\ IF t = 0
        THEN /\ UNCHANGED <<user_states, conspects, task, hist>>
             /\ last' = Ignored
        ELSE /\ conspect_id <= MaxNotes
             /\ conspects' = IF saved
                             THEN add_conspect_to_subject(conspects, s.course,
                                                          s.subject, t, conspect_id)
                             ELSE conspects
             /\ user_states' =
                  [user_states EXCEPT ![u] =
                     [Blank EXCEPT !.state = WAITING_FOR_CONSPECT_DATA,
                                   !.course = s.course, !.subject = s.subject,
                                   !.conspect_id = conspect_id,
                                   !.conspect_name = t]]
             /\ task' = [task EXCEPT ![u] = Detached(u)]
             /\ hist' = Forget(u)
             /\ last' = Event("msg_conspect_name", u, "created", {"send_data"})
     /\ UNCHANGED <<subjects, users, nav, txt_files, budget>>

MsgConspectName(u, t) == MsgConspectNameWith(u, t, TRUE)

\* What one message can carry while data is awaited: a text that is empty, a
\* URL or plain text, and attachments.  "image": downloaded and stored;
\* "image_nourl": no url could be read from the attachment; "image_dlfail":
\* download_image returned None; "unsupported": not an image.
TextInputs ==
  {[k |-> "empty", v |-> 0], [k |-> "url", v |-> 0]}
    \cup {[k |-> "plain", v |-> t] : t \in Texts}

AttKinds == {"image", "image_nourl", "image_dlfail", "unsupported"}

AttInputs == UNION {[1..n -> AttKinds] : n \in 0..MaxAttach}

\* A variant of NewImages that queues a path for every attachment.
RECURSIVE NewImages_unchecked(_, _)
NewImages_unchecked(atts, from) ==
  IF atts = <<>> THEN <<>>
  ELSE <<from>> \o NewImages_unchecked(Tail(atts), from + 1)

\* The image paths appended for the attachments of one message; a path is
\* named by its place in the order of arrival, from `from` on.
RECURSIVE NewImages(_, _)
NewImages(atts, from) ==
  IF atts = <<>> THEN <<>>
  ELSE IF Head(atts) = "image"
       THEN <<from>> \o NewImages(Tail(atts), from + 1)
  ELSE NewImages(Tail(atts), from)

AttMsgs(atts) ==
  {CASE atts[i] = "image" -> "image_received"
     [] atts[i] = "image_dlfail" -> "image_save_error"
     [] atts[i] = "unsupported" -> "unsupported_file"
     [] OTHER -> "nothing" : i \in 1..Len(atts)} \ {"nothing"}

\* A variant of handle_conspect_data_input that queues texts as it queues
\* URLs.
handle_conspect_data_input_queued(s, txt, atts) ==
  LET s1 == CASE txt.k = "url" -> [s EXCEPT !.urls = Append(@, Len(@) + 1)]
              [] txt.k = "plain" -> [s EXCEPT !.text_data = @ \o Raw(txt.v)]
              [] OTHER -> s
  IN [s1 EXCEPT !.attachments = @ \o NewImages(atts, Len(@) + 1)]

\* handle_conspect_data_input, lines 832-879: the dict after the message.
\* A URL is named by its place in the order of arrival.
handle_conspect_data_input(s, txt, atts) ==
  LET s1 == CASE txt.k = "url" -> [s EXCEPT !.urls = Append(@, Len(@) + 1)]
              [] txt.k = "plain" -> [s EXCEPT !.text_data = Raw(txt.v)]
              [] OTHER -> s
  IN [s1 EXCEPT !.attachments = @ \o NewImages(atts, Len(@) + 1)]

\* handle_message -> handle_conspect_data_input for a text that is not the
\* 'done' word.  The dict is changed in place.
\* A variant of MsgData that also takes messages during PROCESSING_DATA.
MsgData_processing(u, txt, atts) ==
  LET s == user_states[u]
      n == (IF txt.k = "empty" THEN 0 ELSE 1) + Len(NewImages(atts, 1))
      msgs == (CASE txt.k = "url" -> {"url_received"}
                 [] txt.k = "plain" -> {"text_received"}
                 [] OTHER -> {}) \cup AttMsgs(atts)
  IN /\ s.state \in {WAITING_FOR_CONSPECT_DATA, PROCESSING_DATA}
     /\ n <= budget
     /\ user_states' = [user_states EXCEPT ![u] = handle_conspect_data_input(s, txt, atts)]
     /\ budget' = budget - n
     /\ last' = IF msgs = {} THEN Ignored ELSE Event("msg_data", u, txt.k, msgs)
     /\ UNCHANGED <<subjects, conspects, users, nav, txt_files, task, hist>>

MsgData(u, txt, atts) ==
  LET s == user_states[u]
      n == (IF txt.k = "empty" THEN 0 ELSE 1) + Len(NewImages(atts, 1))
      msgs == (CASE txt.k = "url" -> {"url_received"}
                 [] txt.k = "plain" -> {"text_received"}
                 [] OTHER -> {}) \cup AttMsgs(atts)
  IN /\ s.state = WAITING_FOR_CONSPECT_DATA
     /\ n <= budget
     /\ user_states' = [user_states EXCEPT ![u] = handle_conspect_data_input(s, txt, atts)]
     /\ budget' = budget - n
     /\ last' = IF msgs = {} THEN Ignored ELSE Event("msg_data", u, txt.k, msgs)
     /\ UNCHANGED <<subjects, conspects, users, nav, txt_files, task, hist>>

\* A variant of HasData that lets every 'done' through.
HasData_always(s) == TRUE

\* handle_conspect_data_input, line 823: something is pending.
HasData(s) == s.text_data # <<>> \/ s.attachments # <<>> \/ s.urls # <<>>

\* A variant of process_conspect_data that does not read the stored note.
process_conspect_data_unread(consp, s) ==
  [s EXCEPT !.state = PROCESSING_DATA, !.old_content = <<>>,
            !.current_content = <<>>]

\* The dict process_conspect_data puts into user_states (lines 538-552).
process_conspect_data(consp, s) ==
  LET current_conspect == get_conspect_by_id(consp, s.course, s.subject, s.conspect_id)
      current_content == current_conspect.content
  IN [s EXCEPT !.state = PROCESSING_DATA,
               !.old_content = current_content,
               !.current_content = current_content]

\* handle_message -> handle_conspect_data_input for 'готово' / 'done' /
\* 'закончил': with nothing pending NO_DATA is sent; otherwise
\* process_conspect_data runs, and with it the first process_next_item up
\* to its first long await.  One drain loop per user is modelled: the word
\* is taken only when no earlier loop of the user is still in flight.
MsgDoneWith(u, exists, saved) ==
  LET s == user_states[u]
      p == process_conspect_data(conspects, s)
      run == IterRun(p, exists, saved)
  IN /\ s.state = WAITING_FOR_CONSPECT_DATA
     /\ IF HasData(s)
        THEN /\ task[u].pc = "idle"
             /\ user_states' = [user_states EXCEPT ![u] = run.s]
             /\ task' = [task EXCEPT ![u] = MkTask(run.pc, TRUE, run.s, run.item)]
             /\ txt_files' = txt_files \cup run.files
             /\ hist' = [hist EXCEPT ![u] =
                           HistAfter([NoHist EXCEPT
                                        !.accepted =
                                          [text_data |-> s.text_data, urls |-> s.urls,
                                           attachments |-> s.attachments],
                                        !.note = s.conspect_id,
                                        !.snapshot = StoredContent(conspects, s.conspect_id)],
                                     p, run)]
             /\ last' = Event("msg_done", u, "accepted",
                              {"processing_start"} \cup run.msgs)
        ELSE /\ UNCHANGED <<user_states, task, txt_files, hist>>
             /\ last' = Event("msg_done", u, "no_data", {"no_data"})
     /\ UNCHANGED <<subjects, conspects, users, nav, budget>>

\* MsgDone while the scratch files can be written.
MsgDone(u, exists) == MsgDoneWith(u, exists, TRUE)

\* handle_message for a text that is no command while the user's session is
\* in none of the three input states: no branch of lines 740-747 is taken.
MsgOther(u) ==
  /\ user_states[u].state \notin InputStates
  /\ last' = Ignored
  /\ UNCHANGED <<user_states, subjects, conspects, users, nav, txt_files, task, budget, hist>>

\* ------------------------------------------------------ callback handlers
\* handle_callback, action add_subject.
CbAddSubject(u, course) ==
  /\ user_states' = [user_states EXCEPT ![u] =
                       [Blank EXCEPT !.state = WAITING_FOR_SUBJECT_NAME,
                                     !.course = course]]
  /\ task' = [task EXCEPT ![u] = Detached(u)]
  /\ hist' = Forget(u)
  /\ last' = Event("cb_add_subject", u, "", {"enter_subject_name"})
  /\ UNCHANGED <<subjects, conspects, users, nav, txt_files, budget>>

\* handle_callback, action add_new_conspect; the button is one of a rendered
\* note list, so its subject is one of the course.
CbAddNewConspect(u, course, subject) ==
  /\ InSeq(subject, subjects[course])
  /\ user_states' = [user_states EXCEPT ![u] =
                       [Blank EXCEPT !.state = WAITING_FOR_CONSPECT_NAME,
                                     !.course = course, !.subject = subject]]
  /\ task' = [task EXCEPT ![u] = Detached(u)]
  /\ hist' = Forget(u)
  /\ last' = Event("cb_add_new_conspect", u, "", {"enter_conspect_name"})
  /\ UNCHANGED <<subjects, conspects, users, nav, txt_files, budget>>

\* handle_callback, action add_to_conspect.
\* A variant of CbAddToConspect that updates the session it finds instead
\* of assigning a new one.
CbAddToConspect_merging(u, course, subject, conspect_id) ==
  LET conspect_data == get_conspect_by_id(conspects, course, subject, conspect_id)
  IN /\ IF conspect_data # NoNote
        THEN /\ user_states' =
                  [user_states EXCEPT ![u] =
                     [@ EXCEPT !.state = WAITING_FOR_CONSPECT_DATA,
                               !.course = course, !.subject = subject,
                               !.conspect_id = conspect_id,
                               !.conspect_name = conspect_data.name]]
             /\ task' = [task EXCEPT ![u] = Detached(u)]
             /\ hist' = Forget(u)
             /\ last' = Event("cb_add_to_conspect", u, "started", {"send_more_data"})
        ELSE /\ UNCHANGED <<user_states, task, hist>>
             /\ last' = Ignored
     /\ UNCHANGED <<subjects, conspects, users, nav, txt_files, budget>>

CbAddToConspect(u, course, subject, conspect_id) ==
  LET conspect_data == get_conspect_by_id(conspects, course, subject, conspect_id)
  IN /\ IF conspect_data # NoNote
        THEN /\ user_states' =
                  [user_states EXCEPT ![u] =
                     [Blank EXCEPT !.state = WAITING_FOR_CONSPECT_DATA,
                                   !.course = course, !.subject = subject,
                                   !.conspect_id = conspect_id,
                                   !.conspect_name = conspect_data.name]]
             /\ task' = [task EXCEPT ![u] = Detached(u)]
             /\ hist' = Forget(u)
             /\ last' = Event("cb_add_to_conspect", u, "started", {"send_more_data"})
        ELSE /\ UNCHANGED <<user_states, task, hist>>
             /\ last' = Ignored
     /\ UNCHANGED <<subjects, conspects, users, nav, txt_files, budget>>

\* A variant of CommitChoice that writes the new content whatever is chosen.
\* A variant of CommitChoice that writes on keep_old instead of save_new.
CommitChoice_swapped(consp, s, action) ==
  IF action = "keep_old"
  THEN update_conspect_content(consp, s.course, s.subject, s.conspect_id,
                               s.new_content)
  ELSE consp

CommitChoice_always(consp, s, action) ==
  update_conspect_content(consp, s.course, s.subject, s.conspect_id, s.new_content)

\* handle_version_choice, lines 997-1002: the notes after the choice.
CommitChoice(consp, s, action) ==
  IF action = "save_new"
  THEN update_conspect_content(consp, s.course, s.subject, s.conspect_id,
                               s.new_content)
  ELSE consp

\* A variant of handle_version_choiceWith that does not compare the note id
\* of the button with the one of the session.
handle_version_choice_anynote(u, action, conspect_id, failing) ==
  LET s == user_states[u]
  IN IF s.state # WAITING_FOR_VERSION_CHOICE
     THEN /\ UNCHANGED <<user_states, conspects, txt_files, task, hist>>
          /\ last' = Ignored
     ELSE /\ conspects' = CommitChoice(conspects, s, action)
          /\ txt_files' = cleanup_temp_filesWith(txt_files, s.conspect_id, failing)
          /\ user_states' = [user_states EXCEPT ![u] = Blank]
          /\ task' = [task EXCEPT ![u] = Detached(u)]
          /\ hist' = [w \in Users |->
                        IF w = u THEN Forget(u)[u]
                        ELSE IF action = "save_new" /\ hist[w].note = s.conspect_id
                             THEN [hist[w] EXCEPT !.overwritten = TRUE]
                        ELSE hist[w]]
          /\ last' = Event("cb_version_choice", u, action,
                           {IF action = "save_new" THEN "new_saved" ELSE "old_kept"}
                             \cup cleanup_log(txt_files, s.conspect_id, failing))

\* handle_callback -> handle_version_choice, action keep_old or save_new.
handle_version_choiceWith(u, action, conspect_id, failing) ==
  LET s == user_states[u]
  IN IF s.state # WAITING_FOR_VERSION_CHOICE \/ s.conspect_id # conspect_id
     THEN /\ UNCHANGED <<user_states, conspects, txt_files, task, hist>>
          /\ last' = Ignored
     ELSE /\ conspects' = CommitChoice(conspects, s, action)
          /\ txt_files' = cleanup_temp_filesWith(txt_files, s.conspect_id, failing)
          /\ user_states' = [user_states EXCEPT ![u] = Blank]
          /\ task' = [task EXCEPT ![u] = Detached(u)]
          /\ hist' = [w \in Users |->
                        IF w = u THEN Forget(u)[u]
                        ELSE IF action = "save_new" /\ hist[w].note = s.conspect_id
                             THEN [hist[w] EXCEPT !.overwritten = TRUE]
                        ELSE hist[w]]
          /\ last' = Event("cb_version_choice", u, action,
                           {IF action = "save_new" THEN "new_saved" ELSE "old_kept"}
                             \cup cleanup_log(txt_files, s.conspect_id, failing))

\* handle_version_choice while every scratch file can be deleted.
handle_version_choice(u, action, conspect_id) ==
  handle_version_choiceWith(u, action, conspect_id, {})

CbVersionChoice(u, action, conspect_id) ==
  /\ handle_version_choice(u, action, conspect_id)
  /\ UNCHANGED <<subjects, users, nav, budget>>

CancelActions == {"cancel_add_subject", "cancel_add_conspect", "cancel_upload_data"}

\* handle_callback -> handle_callback_cancel; the action only chooses the
\* view that is rendered afterwards.
\* A variant of CbCancel that clears user_states.
CbCancel_all(u, action) ==
  /\ user_states' = [w \in Users |-> Blank]
  /\ task' = [task EXCEPT ![u] = Detached(u)]
  /\ hist' = Forget(u)
  /\ last' = Event("cb_cancel", u, user_states[u].state, {"cancelled"})
  /\ UNCHANGED <<subjects, conspects, users, nav, txt_files, budget>>

CbCancel(u, action) ==
  /\ user_states' = [user_states EXCEPT ![u] = Blank]
  /\ task' = [task EXCEPT ![u] = Detached(u)]
  /\ hist' = Forget(u)
  /\ last' = Event("cb_cancel", u, user_states[u].state, {"cancelled"})
  /\ UNCHANGED <<subjects, conspects, users, nav, txt_files, budget>>

\* ------------------------------------------------------- drain loop steps
\* asyncio.sleep(1) returns: the next process_next_item fetches
\* user_states.get(user_id, {}) and runs to its next long await.
LoopWakeWith(u, exists, saved) ==
  LET s == user_states[u]
      isLive == s # Blank
      run == IterRun(s, exists, saved)
  IN /\ task[u].pc = "sleep"
     /\ user_states' = IF isLive THEN [user_states EXCEPT ![u] = run.s]
                       ELSE user_states
     /\ task' = [task EXCEPT ![u] = MkTask(run.pc, isLive, run.s, run.item)]
     /\ txt_files' = txt_files \cup run.files
     /\ hist' = [hist EXCEPT ![u] = HistAfter(@, s, run)]
     /\ last' = Event("loop_wake", u, run.pc, run.msgs)
     /\ UNCHANGED <<subjects, conspects, users, nav, budget>>

\* LoopWake while the scratch files can be written.
LoopWake(u, exists) == LoopWakeWith(u, exists, TRUE)

\* The executor call of the merge oracle returns or raises.
OracleReturnWith(u, outcome, saved) ==
  LET s == View(u)
      isLive == task[u].live
      run == ReturnRun(s, task[u].item, outcome, saved)
  IN /\ task[u].pc = "call"
     /\ user_states' = IF isLive THEN [user_states EXCEPT ![u] = run.s]
                       ELSE user_states
     /\ task' = [task EXCEPT ![u] = MkTask(run.pc, isLive, run.s, run.item)]
     /\ txt_files' = txt_files \cup run.files
     /\ hist' = [hist EXCEPT ![u] = HistAfter(@, s, run)]
     /\ last' = Event("oracle_return", u, run.result[2], run.msgs)
     /\ UNCHANGED <<subjects, conspects, users, nav, budget>>

\* OracleReturn while the scratch files can be written.
OracleReturn(u, outcome) == OracleReturnWith(u, outcome, TRUE)

\* finalize_processing, lines 700-707: the dict put into user_states.
VersionChoiceRecord(s) ==
  [Blank EXCEPT !.state = WAITING_FOR_VERSION_CHOICE,
                !.course = s.course, !.subject = s.subject,
                !.conspect_id = s.conspect_id,
                !.old_content = s.old_content,
                !.new_content = s.current_content]

\* A variant of DiffReturn that ends the pipeline when the call raises.
DiffReturn_blocking(u, ok) ==
  LET s == View(u)
  IN /\ task[u].pc = "diff"
     /\ user_states' = IF ok THEN [user_states EXCEPT ![u] = VersionChoiceRecord(s)]
                       ELSE user_states
     /\ task' = [task EXCEPT ![u] = IdleTask]
     /\ txt_files' = IF ok THEN txt_files \cup {<<s.conspect_id, "diff">>}
                     ELSE txt_files
     /\ last' = Event("diff_return", u, IF ok THEN "ok" ELSE "raise",
                      {IF ok THEN "diff_summary" ELSE "diff_failed", "which_version"})
     /\ UNCHANGED <<subjects, conspects, users, nav, budget, hist>>

\* The executor call of generate_diff_summary returns (ok) or raises;
\* finalize_processing then puts the version-choice dict into user_states.
DiffReturn(u, ok) ==
  LET s == View(u)
  IN /\ task[u].pc = "diff"
     /\ user_states' = [user_states EXCEPT ![u] = VersionChoiceRecord(s)]
     /\ task' = [task EXCEPT ![u] = IdleTask]
     /\ txt_files' = IF ok THEN txt_files \cup {<<s.conspect_id, "diff">>}
                     ELSE txt_files
     /\ last' = Event("diff_return", u, IF ok THEN "ok" ELSE "raise",
                      {IF ok THEN "diff_summary" ELSE "diff_failed", "which_version"})
     /\ UNCHANGED <<subjects, conspects, users, nav, budget, hist>>

\* ------------------------------------------------------------------ Next
Step(u) ==
  \/ MsgCancel(u)
  \/ \E t \in Texts : MsgSubjectName(u, t)
  \/ \E t \in 0..MaxText : MsgConspectName(u, t)
  \/ \E txt \in TextInputs, atts \in AttInputs : MsgData(u, txt, atts)
  \/ \E exists \in BOOLEAN : MsgDone(u, exists)
  \/ MsgOther(u)
  \/ \E c \in Courses : CbAddSubject(u, c)
  \/ \E c \in Courses, sb \in Texts : CbAddNewConspect(u, c, sb)
  \/ \E c \in Courses, sb \in Texts, id \in NoteIds : CbAddToConspect(u, c, sb, id)
  \/ \E a \in {"keep_old", "save_new"}, id \in NoteIds : CbVersionChoice(u, a, id)
  \/ \E a \in CancelActions : CbCancel(u, a)
  \/ \E exists \in BOOLEAN : LoopWake(u, exists)
  \/ \E o \in Outcomes : OracleReturn(u, o)
  \/ \E ok \in BOOLEAN : DiffReturn(u, ok)

\* Every user acts; together they may send MaxShared pending items.
Init == InitWith(MaxShared, {NoNav})

Next == \E u \in Users : Step(u)

Spec == Init /\ [][Next]_vars

\* One user acts and may send MaxItems pending items.
InitSolo == InitWith(MaxItems, {NoNav})

NextSolo == Step(1)

SoloSpec == InitSolo /\ [][NextSolo]_vars

\* The steps of the drain loop of u.  The event loop resumes a coroutine
\* whose await has completed, and the executor calls and asyncio.sleep(1)
\* complete: a loop step that stays possible is eventually taken.
DrainStep(u) ==
  \/ \E exists \in BOOLEAN : LoopWake(u, exists)
  \/ \E o \in Outcomes : OracleReturn(u, o)
  \/ \E ok \in BOOLEAN : DiffReturn(u, ok)

FairSoloSpec == SoloSpec /\ WF_vars(DrainStep(1))

\* ------------------------------------------------------ storage faults
\* What load_json_data returns for subjects.json when reading it raises:
\* the default {}.
NoSubjects == [c \in Courses |-> <<>>]

\* The names a user may type while reads can fail: one more than Texts, so
\* that a name can be stored that the next input does not repeat.
FaultTexts == 1..(MaxText + 1)

\* handle_subject_name_input when the read of subjects.json inside
\* add_subject raises: load_json_data logs and returns {}, the name is
\* appended to the empty list and save_subjects overwrites the file.
MsgSubjectNameUnread(u, t) ==
  LET s == user_states[u]
  IN /\ s.state = WAITING_FOR_SUBJECT_NAME
     /\ subjects' = add_subject(NoSubjects, s.course, t)
     /\ user_states' = [user_states EXCEPT ![u] = Blank]
     /\ task' = [task EXCEPT ![u] = Detached(u)]
     /\ hist' = Forget(u)
     /\ last' = Event("msg_subject_name", u, "unread", {"subject_added"})
     /\ UNCHANGED <<conspects, users, nav, txt_files, budget>>

\* handle_callback -> handle_version_choice while os.remove raises for the
\* versions in failing.
CbVersionChoiceUndeleted(u, action, conspect_id, failing) ==
  /\ handle_version_choiceWith(u, action, conspect_id, failing)
  /\ UNCHANGED <<subjects, users, nav, budget>>

\* The steps of u in which a file operation fails: save_txt_file returns
\* None in finalize_processing, subjects.json cannot be read, or a scratch
\* file cannot be deleted.
FaultStep(u) ==
  \/ \E exists \in BOOLEAN : MsgDoneWith(u, exists, FALSE)
  \/ \E exists \in BOOLEAN : LoopWakeWith(u, exists, FALSE)
  \/ \E o \in Outcomes : OracleReturnWith(u, o, FALSE)
  \/ \E t \in FaultTexts : MsgSubjectNameUnread(u, t)
  \/ \E t \in Texts : MsgConspectNameWith(u, t, FALSE)
  \/ \E a \in {"keep_old", "save_new"}, id \in NoteIds,
        failing \in (SUBSET {"old", "new", "diff"}) \ {{}} :
       CbVersionChoiceUndeleted(u, a, id, failing)

\* One user acts, and file operations may fail.
InitFault == InitWith(MaxShared, {NoNav})

NextFault == Step(1) \/ FaultStep(1)

FaultSpec == InitFault /\ [][NextFault]_vars

\* ------------------------------------------------------- further inputs
\* The message texts of a user who types two different texts.
BlobInputs == TextInputs \cup {[k |-> "plain", v |-> MaxText + 1]}

\* users.json: the stored course of a user, 0 (None) when there is none.
get_user_course(usrs, user_id) == usrs[user_id]

set_user_course(usrs, user_id, course) == [usrs EXCEPT ![user_id] = course]

\* A variant of MsgStart that deletes the session whatever is stored.
MsgStart_reset(u) ==
  LET saved_course == get_user_course(users, u)
  IN /\ user_states' = [user_states EXCEPT ![u] = Blank]
     /\ task' = [task EXCEPT ![u] = Detached(u)]
     /\ hist' = Forget(u)
     /\ last' = IF saved_course # 0
                THEN Event("msg_start", u, "subjects", {"subject_list"})
                ELSE Event("msg_start", u, "courses", {"choose_course"})
     /\ UNCHANGED <<subjects, conspects, users, nav, txt_files, budget>>

\* handle_message -> handle_start: with a stored course the subject list of
\* that course is shown; without one the session is deleted and the course
\* menu is shown.
MsgStart(u) ==
  LET saved_course == get_user_course(users, u)
  IN /\ IF saved_course # 0
        THEN /\ UNCHANGED <<user_states, task, hist>>
             /\ last' = Event("msg_start", u, "subjects", {"subject_list"})
        ELSE /\ user_states' = [user_states EXCEPT ![u] = Blank]
             /\ task' = [task EXCEPT ![u] = Detached(u)]
             /\ hist' = Forget(u)
             /\ last' = Event("msg_start", u, "courses", {"choose_course"})
     /\ UNCHANGED <<subjects, conspects, users, nav, txt_files, budget>>

\* handle_callback, action select_course (lines 895-898).
CbSelectCourse(u, course) ==
  /\ users' = set_user_course(users, u, course)
  /\ last' = Event("cb_select_course", u, "", {"course_selected", "subject_list"})
  /\ UNCHANGED <<user_states, subjects, conspects, nav, txt_files, task, budget,
                 hist>>

\* The steps of u on inputs beyond those of Step.
InputStep(u) ==
  \/ \E atts \in AttInputs : MsgData(u, [k |-> "plain", v |-> MaxText + 1], atts)
  \/ MsgStart(u)
  \/ \E course \in 1..NumCourses : CbSelectCourse(u, course)

\* One user acts on the wider inputs.
InitInput == InitWith(MaxShared, {NoNav})

NextInput == Step(1) \/ InputStep(1)

InputSpec == InitInput /\ [][NextInput]_vars

\* ------------------------------------------------------------- two notes
\* The note ids of the buttons a chat shows once a second note is stored.
ButtonIds == 1..(MaxNotes + 1)

\* Subject 1 of course 1 holds two notes that were created and left without
\* data; nobody has a session.
InitChoice ==
  /\ user_states = [u \in Users |-> Blank]
  /\ subjects = [c \in Courses |-> IF c = 1 THEN <<1>> ELSE <<>>]
  /\ conspects =
       [k \in SubjectKeys |->
          IF k = get_subject_key(1, 1)
          THEN add_conspect_to_subject(
                 add_conspect_to_subject([j \in SubjectKeys |-> <<>>], 1, 1, 1, 1),
                 1, 1, 1, MaxNotes + 1)[k]
          ELSE <<>>]
  /\ users = [u \in Users |-> 0]
  /\ txt_files = {}
  /\ task = [u \in Users |-> IdleTask]
  /\ budget = MaxShared
  /\ hist = [u \in Users |-> NoHist]
  /\ last = Event("init", 0, "", {})
  /\ nav = NoNav

\* The buttons of the second note: 'extend note' and the version choice.
ChoiceStep(u) ==
  \/ CbAddToConspect(u, 1, 1, MaxNotes + 1)
  \/ \E a \in {"keep_old", "save_new"} : CbVersionChoice(u, a, MaxNotes + 1)

\* One user acts on a subject of two notes.
NextChoice == Step(1) \/ ChoiceStep(1)

ChoiceSpec == InitChoice /\ [][NextChoice]_vars

\* ------------------------------------------------- button payloads, pages
\* A string is a sequence of pieces: the delimiter "_", a digit, or a piece
\* of text without delimiter.
CONSPECTS_PER_PAGE == 3
MaxName == 3
MaxPage == 3
MaxListed == 8

Digits == <<"0", "1", "2", "3", "4", "5", "6", "7", "8", "9">>

IsDigit(ch) == \E i \in 1..10 : Digits[i] = ch

DigitValue(ch) == (CHOOSE i \in 1..10 : Digits[i] = ch) - 1

\* str(n) of a number n >= 0 inside an f-string.
RECURSIVE str(_)
str(n) ==
  IF n < 10 THEN <<Digits[n + 1]>>
  ELSE str(n \div 10) \o <<Digits[(n % 10) + 1]>>

\* int(part) succeeds on a non-empty run of digits and raises ValueError
\* on every other part the payloads can hold.
IsInt(part) == part # <<>> /\ \A i \in 1..Len(part) : IsDigit(part[i])

RECURSIVE int(_)
int(part) ==
  IF Len(part) = 1 THEN DigitValue(part[1])
  ELSE 10 * int(SubSeq(part, 1, Len(part) - 1)) + DigitValue(part[Len(part)])

\* payload.split("_")
RECURSIVE split(_)
split(text) ==
  IF \A i \in 1..Len(text) : text[i] # "_" THEN <<text>>
  ELSE LET i == CHOOSE k \in 1..Len(text) :
                  text[k] = "_" /\ \A j \in 1..(k - 1) : text[j] # "_"
       IN <<SubSeq(text, 1, i - 1)>> \o split(SubSeq(text, i + 1, Len(text)))

\* A variant of join that puts no delimiter back.
RECURSIVE join_bare(_)
join_bare(parts) ==
  IF parts = <<>> THEN <<>> ELSE Head(parts) \o join_bare(Tail(parts))

\* "_".join(parts)
RECURSIVE join(_)
join(parts) ==
  IF parts = <<>> THEN <<>>
  ELSE IF Len(parts) = 1 THEN parts[1]
  ELSE parts[1] \o <<"_">> \o join(Tail(parts))

\* parts[start:] and parts[start:-1] with start >= 0 (zero-based).
SliceFrom(parts, start) == SubSeq(parts, start + 1, Len(parts))

SliceInner(parts, start) == SubSeq(parts, start + 1, Len(parts) - 1)

startswith(text, prefix) ==
  Len(text) >= Len(prefix) /\ SubSeq(text, 1, Len(prefix)) = prefix

\* parts[i], zero-based; parts[-1] is Last.
At(parts, i) == parts[i + 1]

LastPart(parts) == parts[Len(parts)]

CallbackData(action, course, subject, conspect_id, page) ==
  [action |-> action, course |-> course, subject |-> subject,
   conspect_id |-> conspect_id, page |-> page]

\* The fields a CallbackData leaves None.
NoCourse == 0
NoText == <<"None">>
NoPage == 0 - 1

\* parse_callback_payload raised (ValueError of int).
ParseError == CallbackData("error", NoCourse, NoText, NoText, NoPage)

\* CallbackData(action, course=int(parts[k]), ...) of the branches below.
WithCourse(action, part, subject, conspect_id, page) ==
  IF IsInt(part) THEN CallbackData(action, int(part), subject, conspect_id, page)
  ELSE ParseError

\* The literal "w1_w2_..._" a payload starts with.
RECURSIVE Prefix(_)
Prefix(words) ==
  IF words = <<>> THEN <<>> ELSE <<Head(words), "_">> \o Prefix(Tail(words))

parse_callback_payload(payload) ==
  LET parts == split(payload)
  IN CASE payload \in {<<"first">>, <<"second">>, <<"third">>, <<"fourth">>} ->
            CallbackData("select_course",
                         CHOOSE c \in 1..NumCourses :
                           <<"first", "second", "third", "fourth">>[c] = payload[1],
                         NoText, NoText, NoPage)
       [] payload = <<"change", "_", "course", "_", "button">> ->
            CallbackData("change_course", NoCourse, NoText, NoText, NoPage)
       [] startswith(payload, Prefix(<<"add", "subject">>)) ->
            WithCourse("add_subject", At(parts, 2), NoText, NoText, NoPage)
       [] startswith(payload, Prefix(<<"cancel", "add", "subject">>)) ->
            WithCourse("cancel_add_subject", At(parts, 3), NoText, NoText, NoPage)
       [] startswith(payload, Prefix(<<"subject">>)) ->
            WithCourse("show_subject", At(parts, 1), join(SliceFrom(parts, 2)),
                       NoText, NoPage)
       [] startswith(payload, Prefix(<<"conspects", "page">>)) ->
            IF IsInt(LastPart(parts))
            THEN WithCourse("conspects_page", At(parts, 2),
                            join(SliceInner(parts, 3)), NoText, int(LastPart(parts)))
            ELSE ParseError
       [] startswith(payload, Prefix(<<"add", "new", "conspect">>)) ->
            WithCourse("add_new_conspect", At(parts, 3), join(SliceFrom(parts, 4)),
                       NoText, NoPage)
       [] startswith(payload, Prefix(<<"cancel", "add", "conspect">>)) ->
            WithCourse("cancel_add_conspect", At(parts, 3),
                       join(SliceFrom(parts, 4)), NoText, NoPage)
       [] startswith(payload, Prefix(<<"edit", "conspect">>)) ->
            WithCourse("edit_conspect", At(parts, 2), join(SliceInner(parts, 3)),
                       LastPart(parts), NoPage)
       [] startswith(payload, Prefix(<<"add", "to", "conspect">>)) ->
            WithCourse("add_to_conspect", At(parts, 3), join(SliceInner(parts, 4)),
                       LastPart(parts), NoPage)
       [] startswith(payload, Prefix(<<"cancel", "upload", "data">>)) ->
            WithCourse("cancel_upload_data", At(parts, 3),
                       join(SliceInner(parts, 4)), LastPart(parts), NoPage)
       [] startswith(payload, Prefix(<<"back", "to", "conspects">>)) ->
            WithCourse("back_to_conspects", At(parts, 3), join(SliceFrom(parts, 4)),
                       NoText, NoPage)
       [] startswith(payload, Prefix(<<"back", "to", "subject">>)) ->
            WithCourse("back_to_subject", At(parts, 3), join(SliceFrom(parts, 4)),
                       NoText, NoPage)
       [] startswith(payload, Prefix(<<"keep", "old">>)) ->
            CallbackData("keep_old", NoCourse, NoText, At(parts, 2), NoPage)
       [] startswith(payload, Prefix(<<"save", "new">>)) ->
            CallbackData("save_new", NoCourse, NoText, At(parts, 2), NoPage)
       [] startswith(payload, Prefix(<<"show", "full", "diff">>)) ->
            CallbackData("show_full_diff", NoCourse, NoText, At(parts, 3), NoPage)
       [] OTHER -> CallbackData("unknown", NoCourse, NoText, NoText, NoPage)

\* The button kinds whose payload carries a subject, by the action parsing
\* gives them.
ButtonKinds ==
  {"show_subject", "conspects_page", "add_new_conspect", "edit_conspect",
   "add_to_conspect", "cancel_upload_data", "back_to_conspects",
   "back_to_subject"}

\* The payload the views give a button: show_subjects_for_course (line 447),
\* show_conspects_page (468, 474, 482, 487, 496), show_conspect_view (521,
\* 522), handle_conspect_name_input (816) and handle_callback (942).
ButtonPayload(kind, course, subject, conspect_id, page) ==
  LET tail == str(course) \o <<"_">> \o subject
  IN CASE kind = "show_subject" -> Prefix(<<"subject">>) \o tail
       [] kind = "conspects_page" ->
            Prefix(<<"conspects", "page">>) \o tail \o <<"_">> \o str(page)
       [] kind = "add_new_conspect" -> Prefix(<<"add", "new", "conspect">>) \o tail
       [] kind = "edit_conspect" ->
            Prefix(<<"edit", "conspect">>) \o tail \o <<"_">> \o conspect_id
       [] kind = "add_to_conspect" ->
            Prefix(<<"add", "to", "conspect">>) \o tail \o <<"_">> \o conspect_id
       [] kind = "cancel_upload_data" ->
            Prefix(<<"cancel", "upload", "data">>) \o tail \o <<"_">> \o conspect_id
       [] kind = "back_to_conspects" -> Prefix(<<"back", "to", "conspects">>) \o tail
       [] OTHER -> Prefix(<<"back", "to", "subject">>) \o tail

\* A variant of show_conspects_page that offers 'next' on a full last page.
show_conspects_page_eager(notes, page) ==
  LET start_idx == page * CONSPECTS_PER_PAGE
      end_idx == start_idx + CONSPECTS_PER_PAGE
  IN [shown |-> SubSeq(notes, start_idx + 1,
                       IF end_idx < Len(notes) THEN end_idx ELSE Len(notes)),
      previous |-> page > 0,
      next |-> end_idx <= Len(notes),
      total_pages |->
        LET pages == (Len(notes) + CONSPECTS_PER_PAGE - 1) \div CONSPECTS_PER_PAGE
        IN IF pages > 1 THEN pages ELSE 1]

\* show_conspects_page for page >= 0: the notes conspects[start_idx:end_idx]
\* listed, the navigation buttons added and the page count reported.
show_conspects_page(notes, page) ==
  LET start_idx == page * CONSPECTS_PER_PAGE
      end_idx == start_idx + CONSPECTS_PER_PAGE
  IN [shown |-> SubSeq(notes, start_idx + 1,
                       IF end_idx < Len(notes) THEN end_idx ELSE Len(notes)),
      previous |-> page > 0,
      next |-> end_idx < Len(notes),
      total_pages |->
        LET pages == (Len(notes) + CONSPECTS_PER_PAGE - 1) \div CONSPECTS_PER_PAGE
        IN IF pages > 1 THEN pages ELSE 1]

\* What a subject name is made of, and the names of at most MaxName pieces.
NameChars == {"a", "1", "_"}

SubjectNames == UNION {[1..n -> NameChars] : n \in 0..MaxName}

\* uuid.uuid4() as text: hexadecimal digits and hyphens.
Uuids == {<<"e">>, <<"1", "-", "f">>}

\* A stored list of n notes.
NoteList(n) == [i \in 1..n |-> [id |-> i, name |-> i, content |-> <<>>]]

\* nav while a button is rendered and pressed, or a note list is shown.
\* The characters of a side that show_full_diff sends whole.
PREVIEW_CHARS == 1000

Ellipsis == << <<"raw", 0>>, <<"raw", 0>>, <<"raw", 0>> >>

\* content[:1000] + "..." if len(content) > 1000 else content
preview(content) ==
  IF Len(content) > PREVIEW_CHARS
  THEN SubSeq(content, 1, PREVIEW_CHARS) \o Ellipsis
  ELSE content

\* A content of n characters, and the lengths around the preview limit.
LongText(n) == [i \in 1..n |-> <<"raw", i>>]

PreviewLens ==
  {0, 1, PREVIEW_CHARS - 1, PREVIEW_CHARS, PREVIEW_CHARS + 1, PREVIEW_CHARS + 2}

NavInputs ==
  {[op |-> "input", kind |-> k, course |-> c, subject |-> sb, conspect_id |-> id,
    page |-> p, n |-> 0, payload |-> <<>>, data |-> ParseError,
    view |-> show_conspects_page(<<>>, 0),
    previews |-> <<>>] :
     k \in ButtonKinds, c \in 1..NumCourses, sb \in SubjectNames, id \in Uuids,
     p \in 0..MaxPage}
  \cup
  {[op |-> "input", kind |-> "list", course |-> 1, subject |-> <<>>,
    conspect_id |-> <<>>, page |-> p, n |-> n, payload |-> <<>>,
    data |-> ParseError, view |-> show_conspects_page(<<>>, 0),
    previews |-> <<>>] :
     n \in 0..MaxListed, p \in 0..MaxPage}

\* nav before a 'show full diff' button is pressed; n is the note id of the
\* button's payload.
PreviewInputs ==
  {[op |-> "input", kind |-> "preview", course |-> 1, subject |-> <<>>,
    conspect_id |-> <<>>, page |-> 0, n |-> id, payload |-> <<>>,
    data |-> ParseError, view |-> show_conspects_page(<<>>, 0),
    previews |-> <<>>] : id \in 1..(MaxNotes + 1)}

\* User 1 has merged into note 1 of subject 1 and is asked which version to
\* keep (the dict of finalize_processing, lines 700-707); other users have
\* no session.
InitPreview ==
  \E old_len \in PreviewLens, new_len \in PreviewLens :
    /\ user_states =
         [u \in Users |->
            IF u = 1
            THEN [Blank EXCEPT !.state = WAITING_FOR_VERSION_CHOICE,
                               !.course = 1, !.subject = 1, !.conspect_id = 1,
                               !.old_content = LongText(old_len),
                               !.new_content = LongText(new_len)]
            ELSE Blank]
    /\ subjects = [c \in Courses |-> IF c = 1 THEN <<1>> ELSE <<>>]
    /\ conspects =
         [k \in SubjectKeys |->
            IF k = get_subject_key(1, 1)
            THEN <<[id |-> 1, name |-> 1, content |-> LongText(old_len)]>>
            ELSE <<>>]
    /\ users = [u \in Users |-> 0]
    /\ txt_files = {<<1, "old">>, <<1, "new">>}
    /\ task = [u \in Users |-> IdleTask]
    /\ budget = 0
    /\ hist = [u \in Users |-> NoHist]
    /\ last = Event("init", 0, "", {})
    /\ nav \in PreviewInputs

InitNav == InitWith(0, NavInputs) \/ InitPreview

NavFrame ==
  UNCHANGED <<user_states, subjects, conspects, users, txt_files, task, budget,
              hist, last>>

\* A view gives the button its payload.
RenderButton ==
  /\ nav.op = "input" /\ nav.kind \in ButtonKinds
  /\ nav' = [nav EXCEPT !.op = "button",
                        !.payload = ButtonPayload(nav.kind, nav.course, nav.subject,
                                                  nav.conspect_id, nav.page)]
  /\ NavFrame

\* handle_callback, line 892: the payload of the pressed button is parsed.
PressButton ==
  /\ nav.op = "button"
  /\ nav' = [nav EXCEPT !.op = "parsed",
                        !.data = parse_callback_payload(nav.payload)]
  /\ NavFrame

\* show_conspects_page on a subject with nav.n notes.
ShowPage ==
  /\ nav.op = "input" /\ nav.kind = "list"
  /\ nav' = [nav EXCEPT !.op = "page",
                        !.view = show_conspects_page(NoteList(nav.n), nav.page)]
  /\ NavFrame

\* A variant of CbShowFullDiff that ends the session it shows.
CbShowFullDiff_closing(u, conspect_id) ==
  LET s == user_states[u]
      shown == s.state = WAITING_FOR_VERSION_CHOICE /\ s.conspect_id = conspect_id
  IN /\ nav' = [nav EXCEPT !.op = "previewed",
                           !.previews = IF shown
                                        THEN <<preview(s.old_content),
                                               preview(s.new_content)>>
                                        ELSE <<>>]
     /\ last' = IF shown
                THEN Event("cb_show_full_diff", u, "shown",
                           {"old_preview", "new_preview", "choose_version"})
                ELSE Ignored
     /\ user_states' = IF shown THEN [user_states EXCEPT ![u] = Blank]
                       ELSE user_states
     /\ UNCHANGED <<subjects, conspects, users, txt_files, task, budget, hist>>

\* handle_callback, action show_full_diff (lines 945-964): in
\* WAITING_FOR_VERSION_CHOICE for the payload's note the two previews and
\* the version buttons are sent; otherwise nothing happens.  nav records
\* the previews sent.
CbShowFullDiff(u, conspect_id) ==
  LET s == user_states[u]
      shown == s.state = WAITING_FOR_VERSION_CHOICE /\ s.conspect_id = conspect_id
  IN /\ nav' = [nav EXCEPT !.op = "previewed",
                           !.previews = IF shown
                                        THEN <<preview(s.old_content),
                                               preview(s.new_content)>>
                                        ELSE <<>>]
     /\ last' = IF shown
                THEN Event("cb_show_full_diff", u, "shown",
                           {"old_preview", "new_preview", "choose_version"})
                ELSE Ignored
     /\ UNCHANGED <<user_states, subjects, conspects, users, txt_files, task,
                    budget, hist>>

\* User 1 presses the 'show full diff' button.
ShowFullDiff ==
  /\ nav.op = "input" /\ nav.kind = "preview"
  /\ CbShowFullDiff(1, nav.n)

NextNav == RenderButton \/ PressButton \/ ShowPage \/ ShowFullDiff

NavSpec == InitNav /\ [][NextNav]_vars

\* ============================================================ properties
Last(sq) == sq[Len(sq)]

\* The step just taken was the version choice `action` of user u.
Chose(u, action) ==
  last.op = "cb_version_choice" /\ last.user = u /\ last.act = action

C2_KeepOldEqualsSnapshot ==
  [][\A u \in Users :
       Chose(u, "keep_old")' =>
         /\ conspects' = conspects
         /\ StoredContent(conspects', user_states[u].conspect_id)
              = user_states[u].old_content]_vars

\* C2, amended: on keep_old no repository write happens, so the note's
\* stored content is what it was just before the choice; it equals the
\* session's old_content snapshot provided no save_new of another session
\* has written the note since the snapshot was taken.
C2_KeepOldWritesNothing ==
  [][\A u \in Users :
       Chose(u, "keep_old")' =>
         /\ conspects' = conspects
         /\ ~hist[u].overwritten =>
              StoredContent(conspects', user_states[u].conspect_id)
                = user_states[u].old_content]_vars

C2_Witness ==
  \E u \in Users, id \in NoteIds :
    /\ Chose(u, "keep_old")
    /\ StoredContent(conspects, id) # <<>>

\* The order the drain contract fixes for a pending set: the text, then the
\* URLs, then the images, each bucket in the order of arrival.
Expected(acc) ==
  (IF acc.text_data # <<>> THEN <<TextItem>> ELSE <<>>)
    \o [i \in 1..Len(acc.urls) |-> <<"url", acc.urls[i]>>]
    \o [i \in 1..Len(acc.attachments) |-> <<"image", acc.attachments[i]>>]

WasHanded(entry) == entry[2] # "missing"

\* The items the drain of u has handed to the merge oracle, in order.
Handed(u) ==
  LET calls == SelectSeq(hist[u].log, WasHanded)
  IN [i \in 1..Len(calls) |-> calls[i][1]]

Place(item, sq) == CHOOSE i \in 1..Len(sq) : sq[i] = item

\* C3: the drain loop hands the items to the merge oracle in the fixed
\* order: the text before any URL, every URL before any image, URLs and
\* images each in the order they were enqueued.
C3_DrainOrder ==
  \A u \in Users :
    LET want == Expected(hist[u].accepted)
        got == Handed(u)
    IN /\ \A i \in 1..Len(got) : InSeq(got[i], want)
       /\ \A i, j \in 1..Len(got) :
            i < j => Place(got[i], want) < Place(got[j], want)

C3_Witness ==
  \E u \in Users :
    /\ Len(hist[u].accepted.urls) + Len(hist[u].accepted.attachments) >= 2
    /\ Handed(u) = Expected(hist[u].accepted)
    /\ Len(Handed(u)) = 3

\* The drain of u was given exactly the three URLs 1, 2, 3 and took them all,
\* the first and the third with an oracle answer, the second with a failure.
SecondOfThreeFailed(u) ==
  /\ hist[u].accepted = [text_data |-> <<>>, urls |-> <<1, 2, 3>>,
                         attachments |-> <<>>]
  /\ Len(hist[u].log) = 3
  /\ \A i \in 1..3 : hist[u].log[i][1] = <<"url", i>>
  /\ hist[u].log[1][2] = "ok"
  /\ hist[u].log[2][2] \in {"failed", "raise"}
  /\ hist[u].log[3][2] = "ok"

\* The merge of the URL n onto the content c by an oracle call that answers.
MergedUrl(c, n) == generate_updated_note(c, 0, "url", n, "ok")

\* C4: with three URLs pending of which the merge of the second fails, the
\* new content offered at the version choice is the merge of the first and
\* then the third onto the old content.
C4_FailureIsolated ==
  \A u \in Users :
    (SecondOfThreeFailed(u) /\ user_states[u].state = WAITING_FOR_VERSION_CHOICE)
      => user_states[u].new_content
           = MergedUrl(MergedUrl(user_states[u].old_content, 1), 3)

\* The item of the log entry is still in its bucket of the dict s.
StillQueued(entry, s) ==
  CASE entry[1][1] = "text" -> s.text_data # <<>>
    [] entry[1][1] = "url" -> InSeq(entry[1][2], s.urls)
    [] OTHER -> InSeq(entry[1][2], s.attachments)

\* C5: when the oracle call for a pending item fails, that item is dropped
\* from its bucket, so that the loop goes on to the next item; a failing
\* text does not stay in the text slot.
C5_FailedItemDropped ==
  \A u \in Users :
    (/\ last.op = "oracle_return" /\ last.user = u
     /\ last.act \in {"failed", "raise"}
     /\ user_states[u].state = PROCESSING_DATA
     /\ hist[u].log # <<>>)
      => ~StillQueued(Last(hist[u].log), user_states[u])

\* C6: once 'done' is accepted, the drain loop eventually ends and the
\* session leaves PROCESSING_DATA (for WAITING_FOR_VERSION_CHOICE, unless
\* the user removes the session first), whatever the pending text is and
\* whichever calls fail.
C6_DrainTerminates ==
  \A u \in Users :
    (user_states[u].state = PROCESSING_DATA)
      ~> (user_states[u].state # PROCESSING_DATA)

\* C7: no pending item is discarded silently: when the drain takes an item
\* and does not merge it by an oracle call that answers (the image file is
\* missing, or the call fails), a failure message about it is sent.
C7_NoSilentDiscard ==
  [][\A u \in Users :
       (hist'[u].log # hist[u].log /\ hist'[u].log # <<>>) =>
         LET entry == Last(hist'[u].log)
         IN entry[2] \in {"missing", "failed", "raise"} =>
              ("error_" \o entry[1][1]) \in last'.msgs]_vars

\* C8: a 'done' received in WAITING_FOR_CONSPECT_DATA while all three buckets
\* are empty leaves the session as it is, sends the 'no data' message and
\* starts no drain; no drain ever runs on an empty pending set.
C8_DoneWithoutData ==
  /\ [](\A u \in Users : task[u].pc # "idle" => hist[u].accepted # NoPending)
  /\ [][\A u \in Users :
          (/\ last'.op = "msg_done" /\ last'.user = u
           /\ ~StillPending(user_states[u])) =>
            /\ user_states' = user_states
            /\ task' = task
            /\ last'.msgs = {"no_data"}]_vars

C8_Witness ==
  \E u \in Users :
    /\ last.op = "msg_done" /\ last.user = u /\ last.act = "no_data"
    /\ user_states[u].state = WAITING_FOR_CONSPECT_DATA
    /\ task[u].pc = "idle"

\* C9: from PROCESSING_DATA through WAITING_FOR_VERSION_CHOICE the old_content
\* of the session (and of the dict a running drain loop holds) is the stored
\* content of the note as it was when the merge started.
C9_SnapshotKept ==
  \A u \in Users :
    /\ user_states[u].state \in {PROCESSING_DATA, WAITING_FOR_VERSION_CHOICE}
         => user_states[u].old_content = hist[u].snapshot
    /\ task[u].st.state = PROCESSING_DATA
         => task[u].st.old_content = hist[u].snapshot

C9_Witness ==
  \E u \in Users :
    /\ user_states[u].state = WAITING_FOR_VERSION_CHOICE
    /\ user_states[u].old_content # <<>>
    /\ user_states[u].new_content # user_states[u].old_content
    /\ StoredContent(conspects, user_states[u].conspect_id)
         = user_states[u].old_content

\* C10: from every session state a cancel event, the cancel text or a cancel
\* button, removes the user's session record.
C10_CancelRemovesSession ==
  [][\A u \in Users :
       (MsgCancel(u) \/ \E a \in CancelActions : CbCancel(u, a))
         => user_states'[u] = Blank]_vars

\* The kinds whose payload ends with a note id.
IdKinds == {"edit_conspect", "add_to_conspect", "cancel_upload_data"}

\* C13: parsing the payload generated for a button of any kind gives back
\* the action of the kind and exactly the course, subject, note id and page
\* the payload was generated from, also for subjects that hold "_".
C13_RoundTrip ==
  nav.op = "parsed" =>
    nav.data = CallbackData(nav.kind, nav.course, nav.subject,
                            IF nav.kind \in IdKinds THEN nav.conspect_id ELSE NoText,
                            IF nav.kind = "conspects_page" THEN nav.page ELSE NoPage)

C13_Witness ==
  /\ nav.op = "parsed"
  /\ nav.kind = "edit_conspect"
  /\ nav.subject = <<"a", "_", "1">>
  /\ nav.conspect_id = <<"1", "-", "f">>
  /\ nav.data.subject = nav.subject
  /\ nav.data.conspect_id = nav.conspect_id

\* ceil(n/3)
Ceil3(n) == CHOOSE k \in 0..n : 3 * k >= n /\ 3 * (k - 1) < n

\* C14: page p of n notes shows the notes 3p+1..min(3p+3, n) in stored
\* order, 'next' iff 3(p+1) < n, 'previous' iff p > 0, and reports
\* max(1, ceil(n/3)) pages.
C14_Pagination ==
  nav.op = "page" =>
    LET n == nav.n
        p == nav.page
        hi == IF 3 * p + 3 < n THEN 3 * p + 3 ELSE n
    IN /\ Len(nav.view.shown) = (IF hi > 3 * p THEN hi - 3 * p ELSE 0)
       /\ \A i \in 1..Len(nav.view.shown) : nav.view.shown[i].id = 3 * p + i
       /\ nav.view.next <=> 3 * (p + 1) < n
       /\ nav.view.previous <=> p > 0
       /\ nav.view.total_pages = (IF Ceil3(n) > 1 THEN Ceil3(n) ELSE 1)

C14_Witness ==
  /\ nav.op = "page" /\ nav.n = 7 /\ nav.page = 2
  /\ Len(nav.view.shown) = 1 /\ nav.view.shown[1].id = 7
  /\ nav.view.previous /\ ~nav.view.next
  /\ nav.view.total_pages = 3

\* C15: a course's subject list never holds a name twice; a subject-name
\* input either leaves the lists unchanged and reports 'already exists' for
\* a name the course holds, or appends a name the course lacks exactly once
\* and reports 'added'; in both cases the user's session is removed.
C15_SubjectsUnique ==
  /\ [](\A c \in Courses : \A i, j \in 1..Len(subjects[c]) :
          subjects[c][i] = subjects[c][j] => i = j)
  /\ [][\A u \in Users :
          (last'.op = "msg_subject_name" /\ last'.user = u
           /\ user_states[u].state = WAITING_FOR_SUBJECT_NAME) =>
            LET c == user_states[u].course
            IN /\ user_states'[u] = Blank
               /\ \E t \in Texts :
                    \/ /\ InSeq(t, subjects[c])
                       /\ subjects' = subjects
                       /\ last'.msgs = {"subject_exists"}
                    \/ /\ ~InSeq(t, subjects[c])
                       /\ subjects' = [subjects EXCEPT ![c] = Append(@, t)]
                       /\ last'.msgs = {"subject_added"}]_vars

C15_Witness ==
  /\ last.op = "msg_subject_name"
  /\ last.msgs = {"subject_exists"}
  /\ \E c \in Courses : Len(subjects[c]) = 1
  /\ user_states[last.user] = Blank

\* C16: every step that changes the content of a stored note is a save_new
\* choice of a user whose session was in WAITING_FOR_VERSION_CHOICE for that
\* note; no other step writes note content.
C16_ContentOnlyByCommit ==
  [][\A id \in NoteIds :
       (/\ \E n \in AllNotes(conspects) : n.id = id
        /\ StoredContent(conspects', id) # StoredContent(conspects, id)) =>
         /\ last'.op = "cb_version_choice"
         /\ last'.act = "save_new"
         /\ user_states[last'.user].state = WAITING_FOR_VERSION_CHOICE
         /\ user_states[last'.user].conspect_id = id]_vars

C16_Witness ==
  \E u, w \in Users :
    /\ u # w
    /\ Chose(u, "save_new")
    /\ user_states[w].state = WAITING_FOR_VERSION_CHOICE
    /\ StoredContent(conspects, user_states[w].conspect_id)
         # user_states[w].old_content

\* The steps that start a flow: add subject, add note, name a note, extend
\* a note.
FlowStarts ==
  {"cb_add_subject", "cb_add_new_conspect", "msg_conspect_name",
   "cb_add_to_conspect"}

\* C18: a step that starts a flow assigns the user a session that holds the
\* state and the fields of the new flow only: its pending buckets and its
\* contents are empty, whatever the session before held.
C18_NewFlowReplacesSession ==
  [][\A u \in Users :
       (last'.op \in FlowStarts /\ last'.user = u /\ last' # last) =>
         LET new == user_states'[u]
         IN /\ new = [Blank EXCEPT !.state = new.state, !.course = new.course,
                                   !.subject = new.subject,
                                   !.conspect_id = new.conspect_id,
                                   !.conspect_name = new.conspect_name]
            /\ last'.op = "cb_add_subject" =>
                 /\ new.state = WAITING_FOR_SUBJECT_NAME
                 /\ new.subject = 0 /\ new.conspect_id = 0 /\ new.conspect_name = 0
            /\ last'.op = "cb_add_new_conspect" =>
                 /\ new.state = WAITING_FOR_CONSPECT_NAME
                 /\ new.conspect_id = 0 /\ new.conspect_name = 0
            /\ last'.op \in {"msg_conspect_name", "cb_add_to_conspect"} =>
                 new.state = WAITING_FOR_CONSPECT_DATA]_vars

C18_Witness ==
  \E u \in Users :
    /\ last.op = "cb_add_to_conspect" /\ last.user = u
    /\ task[u].pc = "call" /\ ~task[u].live
    /\ StillPending(task[u].st)
    /\ user_states[u].state = WAITING_FOR_CONSPECT_DATA
    /\ ~StillPending(user_states[u])

\* C19: a step that creates, changes or removes the session of a user,
\* its pending buckets included, is an event of that user.
C19_SessionsIsolated ==
  [][\A b \in Users : user_states'[b] # user_states[b] => last'.user = b]_vars

C19_Witness ==
  \E a, b \in Users :
    /\ a # b
    /\ last.op = "cb_cancel" /\ last.user = a /\ last.act = WAITING_FOR_CONSPECT_DATA
    /\ user_states[a] = Blank
    /\ user_states[b].state = WAITING_FOR_CONSPECT_DATA
    /\ StillPending(user_states[b])

\* C20: when the diff call raises, the step still puts the user into
\* WAITING_FOR_VERSION_CHOICE for the note, with the old_content and the
\* merged content of the drain as old_content and new_content, and asks
\* which version to keep.
C20_DiffFailureKeepsChoice ==
  [][\A u \in Users :
       (task[u].pc = "diff" /\ last'.op = "diff_return" /\ last'.user = u
        /\ last'.act = "raise" /\ task'[u].pc = "idle") =>
         /\ user_states'[u].state = WAITING_FOR_VERSION_CHOICE
         /\ user_states'[u].conspect_id = View(u).conspect_id
         /\ user_states'[u].old_content = View(u).old_content
         /\ user_states'[u].new_content = View(u).current_content
         /\ "which_version" \in last'.msgs]_vars

C20_Witness ==
  \E u \in Users :
    /\ last.op = "diff_return" /\ last.user = u /\ last.act = "raise"
    /\ user_states[u].state = WAITING_FOR_VERSION_CHOICE
    /\ user_states[u].new_content # user_states[u].old_content

\* The steps of the drain loop.
LoopOps == {"loop_wake", "oracle_return", "diff_return"}

\* C11: after a cancel button pressed while the user's drain loop is in
\* progress, the next step of the loop does not end it short of the version
\* decision: the loop goes on or the session is in WAITING_FOR_VERSION_CHOICE.
C11_CancelKeepsLoop ==
  [][\A u \in Users :
       (/\ last.op = "cb_cancel" /\ last.user = u /\ last.act = PROCESSING_DATA
        /\ task[u].pc # "idle"
        /\ last'.op \in LoopOps /\ last'.user = u) =>
         \/ task'[u].pc # "idle"
         \/ user_states'[u].state = WAITING_FOR_VERSION_CHOICE]_vars

\* C12: a session in PROCESSING_DATA has its drain loop in progress, so it
\* is never left in PROCESSING_DATA for good.
C12_NeverStuckProcessing ==
  \A u \in Users : user_states[u].state = PROCESSING_DATA => task[u].pc # "idle"

\* C17: a stored subject stays in its course's list and a stored note id
\* stays stored, in every step.
C17_NothingRemoved ==
  [][/\ \A c \in Courses : \A i \in 1..Len(subjects[c]) :
          InSeq(subjects[c][i], subjects'[c])
     /\ \A n \in AllNotes(conspects) :
          \E m \in AllNotes(conspects') : m.id = n.id]_vars

\* C21: a keep_old or save_new choice taken in WAITING_FOR_VERSION_CHOICE
\* for the session's note removes the session and deletes each of the
\* note's old, new and diff scratch files, except exactly those whose
\* deletion failed and was logged.
C21_ChoiceEndsSession ==
  [][\A u \in Users :
       (/\ last'.op = "cb_version_choice" /\ last'.user = u
        /\ user_states[u].state = WAITING_FOR_VERSION_CHOICE) =>
         /\ user_states'[u] = Blank
         /\ \A i \in 1..3 :
              LET f == <<user_states[u].conspect_id, Versions[i]>>
              IN f \in txt_files' <=>
                   (f \in txt_files /\ ("log_undeleted_" \o Versions[i]) \in last'.msgs)
         /\ \A f \in txt_files : f[1] # user_states[u].conspect_id => f \in txt_files']_vars

C21_Witness ==
  \E u \in Users, id \in NoteIds :
    /\ last.op = "cb_version_choice" /\ last.user = u
    /\ "log_undeleted_old" \in last.msgs
    /\ "log_undeleted_new" \notin last.msgs
    /\ <<id, "old">> \in txt_files
    /\ <<id, "new">> \notin txt_files
    /\ user_states[u] = Blank

\* C22: 'show full diff' pressed in WAITING_FOR_VERSION_CHOICE for the
\* session's note changes neither the session nor the stored notes, and
\* each preview sent is the whole side when it has at most 1000 characters,
\* else its first 1000 characters followed by the ellipsis.
C22_ShowFullDiffFrame ==
  [][(nav.op = "input" /\ nav.kind = "preview" /\ nav'.op = "previewed") =>
       /\ user_states' = user_states
       /\ conspects' = conspects
       /\ (user_states[1].state = WAITING_FOR_VERSION_CHOICE
           /\ user_states[1].conspect_id = nav.n) =>
            /\ Len(nav'.previews) = 2
            /\ \A side \in 1..2 :
                 LET content == IF side = 1 THEN user_states[1].old_content
                                ELSE user_states[1].new_content
                     sent == nav'.previews[side]
                 IN IF Len(content) <= 1000 THEN sent = content
                    ELSE /\ Len(sent) = 1003
                         /\ \A i \in 1..1000 : sent[i] = content[i]
                         /\ \A i \in 1001..1003 : sent[i] = <<"raw", 0>>]_vars

C22_Witness ==
  /\ nav.op = "previewed"
  /\ last.op = "cb_show_full_diff"
  /\ user_states[1].state = WAITING_FOR_VERSION_CHOICE
  /\ Len(user_states[1].old_content) = 1000
  /\ Len(user_states[1].new_content) = 1001
  /\ nav.previews[1] = user_states[1].old_content
  /\ Len(nav.previews[2]) = 1003

\* C23: a message handled in WAITING_FOR_CONSPECT_DATA leaves the session
\* in that state with at most one pending text; a text that is no URL
\* replaces the pending text and leaves the URL queue unchanged, a URL is
\* appended to the end of the URL queue and leaves the pending text
\* unchanged, and the image queue changes only by the images attached.
C23_TextSlotUrlQueue ==
  [][\A u \in Users, txt \in BlobInputs, atts \in AttInputs :
       MsgData(u, txt, atts) =>
         LET s == user_states[u]
             n == user_states'[u]
         IN /\ n.state = WAITING_FOR_CONSPECT_DATA
            /\ Len(n.text_data) <= 1
            /\ txt.k = "plain" => (n.text_data = Raw(txt.v) /\ n.urls = s.urls)
            /\ txt.k = "url" =>
                 /\ n.text_data = s.text_data
                 /\ Len(n.urls) = Len(s.urls) + 1
                 /\ SubSeq(n.urls, 1, Len(s.urls)) = s.urls
            /\ txt.k = "empty" => (n.text_data = s.text_data /\ n.urls = s.urls)
            /\ (\A i \in 1..Len(atts) : atts[i] # "image") =>
                 n.attachments = s.attachments]_vars

C23_Witness ==
  /\ last.op = "msg_data" /\ last.act = "plain" /\ last.user = 1
  /\ user_states[1].state = WAITING_FOR_CONSPECT_DATA
  /\ user_states[1].text_data = Raw(MaxText + 1)
  /\ user_states[1].urls = <<>> /\ user_states[1].attachments = <<>>
  /\ budget = MaxShared - 2

\* C24: of the attachments of a message handled in WAITING_FOR_CONSPECT_DATA
\* only the downloaded images are appended to the image queue; an
\* unsupported attachment is answered with the unsupported-file error, a
\* failed download with the save error, and a message of such attachments
\* alone leaves the session as it was.
C24_RejectedAttachments ==
  [][\A u \in Users, txt \in TextInputs, atts \in AttInputs :
       MsgData(u, txt, atts) =>
         LET s == user_states[u]
             n == user_states'[u]
             images == {i \in 1..Len(atts) : atts[i] = "image"}
         IN /\ Len(n.attachments) = Len(s.attachments) + Cardinality(images)
            /\ SubSeq(n.attachments, 1, Len(s.attachments)) = s.attachments
            /\ \A i \in 1..Len(atts) :
                 /\ atts[i] = "unsupported" => "unsupported_file" \in last'.msgs
                 /\ atts[i] = "image_dlfail" => "image_save_error" \in last'.msgs
            /\ (txt.k = "empty" /\ images = {}) => n = s]_vars

C24_Witness ==
  \E u \in Users :
    /\ last.op = "msg_data" /\ last.user = u /\ last.act = "empty"
    /\ last.msgs = {"unsupported_file"}
    /\ user_states[u].state = WAITING_FOR_CONSPECT_DATA
    /\ user_states[u].text_data # <<>>
    /\ user_states[u].attachments = <<>>

\* C25: a non-empty text handled in WAITING_FOR_CONSPECT_NAME appends one
\* note with a new id, the text as its name and empty content to the notes
\* of the session's course and subject, and assigns the user a session in
\* WAITING_FOR_CONSPECT_DATA for that note with empty buckets; an empty
\* text changes neither the notes nor the session.
C25_NameCreatesNote ==
  [][\A u \in Users, t \in 0..MaxText :
       MsgConspectName(u, t) =>
         LET s == user_states[u]
             n == user_states'[u]
             key == get_subject_key(s.course, s.subject)
         IN IF t = 0
            THEN conspects' = conspects /\ user_states' = user_states
            ELSE /\ \A m \in AllNotes(conspects) : m.id # n.conspect_id
                 /\ conspects' =
                      [conspects EXCEPT ![key] =
                         Append(@, [id |-> n.conspect_id, name |-> t,
                                    content |-> <<>>])]
                 /\ n = [Blank EXCEPT !.state = WAITING_FOR_CONSPECT_DATA,
                                      !.course = s.course, !.subject = s.subject,
                                      !.conspect_id = n.conspect_id,
                                      !.conspect_name = t]]_vars

C25_Witness ==
  \E u \in Users :
    /\ last.op = "msg_conspect_name" /\ last.user = u /\ last.act = "created"
    /\ user_states[u].state = WAITING_FOR_CONSPECT_DATA
    /\ ~StillPending(user_states[u])
    /\ StoredContent(conspects, user_states[u].conspect_id) = <<>>
    /\ \E m \in AllNotes(conspects) : m.id = user_states[u].conspect_id

\* C26: the 'extend note' button assigns the user a session in
\* WAITING_FOR_CONSPECT_DATA for the addressed note, with the note's name
\* and empty buckets, when the note is stored under the addressed course
\* and subject; otherwise it leaves every session as it was.
C26_ExtendNeedsNote ==
  [][\A u \in Users, c \in Courses, sb \in Texts, id \in NoteIds :
       CbAddToConspect(u, c, sb, id) =>
         LET notes == conspects[get_subject_key(c, sb)]
         IN IF \E i \in 1..Len(notes) : notes[i].id = id
            THEN \E i \in 1..Len(notes) :
                   /\ notes[i].id = id
                   /\ user_states'[u] =
                        [Blank EXCEPT !.state = WAITING_FOR_CONSPECT_DATA,
                                      !.course = c, !.subject = sb,
                                      !.conspect_id = id,
                                      !.conspect_name = notes[i].name]
            ELSE user_states' = user_states]_vars

C26_Witness ==
  \E u \in Users :
    /\ last.op = "cb_add_to_conspect" /\ last.user = u /\ last.act = "started"
    /\ user_states[u].state = WAITING_FOR_CONSPECT_DATA
    /\ ~StillPending(user_states[u])
    /\ StoredContent(conspects, user_states[u].conspect_id) # <<>>
    /\ task[u].pc = "idle"

\* C27: a start command of a user with a stored course changes neither the
\* sessions nor the repository and shows the subject list; of a user with
\* no stored course it leaves that user without a session, the repository
\* unchanged, and shows the course menu; a course button stores the pressed
\* course for the pressing user alone and changes no session, so a user
\* without a session stays without one.
C27_StartAndCourse ==
  [][\A u \in Users :
       /\ MsgStart(u) =>
            /\ subjects' = subjects /\ conspects' = conspects /\ users' = users
            /\ IF users[u] # 0
               THEN user_states' = user_states /\ "subject_list" \in last'.msgs
               ELSE /\ user_states'[u] = Blank
                    /\ \A w \in Users \ {u} : user_states'[w] = user_states[w]
                    /\ "choose_course" \in last'.msgs
       /\ \A course \in 1..NumCourses :
            CbSelectCourse(u, course) =>
              /\ users'[u] = course
              /\ \A w \in Users \ {u} : users'[w] = users[w]
              /\ user_states' = user_states
              /\ subjects' = subjects /\ conspects' = conspects]_vars

C27_Witness ==
  /\ last.op = "msg_start" /\ last.user = 1 /\ last.act = "subjects"
  /\ users[1] = NumCourses
  /\ user_states[1].state = WAITING_FOR_CONSPECT_DATA
  /\ StillPending(user_states[1])

\* C28: a step of the drain loop that takes a URL or an image takes the
\* head of its bucket and removes it from the bucket; the return of the
\* oracle call, with an answer or a failure, puts nothing back into the
\* buckets; so an item in the hands of the oracle is no longer pending and
\* is handed over at most once.
C28_NoRetry ==
  /\ [](\A u \in Users :
          (task[u].pc = "call" /\ View(u).state = PROCESSING_DATA) =>
            /\ task[u].item[1] = "url" => ~InSeq(task[u].item[2], View(u).urls)
            /\ task[u].item[1] = "image" =>
                 ~InSeq(task[u].item[2], View(u).attachments))
  /\ [][\A u \in Users :
          /\ (task[u].pc # "call" /\ task'[u].pc = "call"
               /\ task'[u].item[1] = "url") =>
                /\ user_states[u].urls # <<>>
                /\ task'[u].item[2] = Head(user_states[u].urls)
                /\ user_states'[u].urls = Tail(user_states[u].urls)
                /\ user_states'[u].attachments = user_states[u].attachments
          /\ (task[u].pc # "call" /\ task'[u].pc = "call"
               /\ task'[u].item[1] = "image") =>
                /\ user_states[u].attachments # <<>>
                /\ task'[u].item[2] = Head(user_states[u].attachments)
                /\ user_states'[u].attachments = Tail(user_states[u].attachments)
                /\ user_states'[u].urls = user_states[u].urls
          /\ (task[u].pc = "call" /\ task[u].live
               /\ last'.op = "oracle_return" /\ last'.user = u) =>
                /\ user_states'[u].urls = user_states[u].urls
                /\ user_states'[u].attachments = user_states[u].attachments]_vars

C28_Witness ==
  /\ Len(hist[1].log) = 2
  /\ hist[1].log[1] = << <<"url", 1>>, "raise" >>
  /\ hist[1].log[2] = << <<"url", 2>>, "ok" >>
  /\ user_states[1].state = PROCESSING_DATA
  /\ user_states[1].attachments # <<>>

\* The left fold of the merge oracle over the items of the log whose call
\* gave an answer, from the content c on; text is the pending text the
\* drain was given.
RECURSIVE FoldMerged(_, _, _)
FoldMerged(c, log, text) ==
  IF log = <<>> THEN c
  ELSE LET item == Head(log)[1]
           next == IF Head(log)[2] = "ok"
                   THEN generate_updated_note(c, 0, item[1],
                                              IF item[1] = "text" THEN text
                                              ELSE item[2], "ok")
                   ELSE c
       IN FoldMerged(next, Tail(log), text)

\* C29: while the drain loop of a user works on its PROCESSING_DATA
\* session, the running content is the left fold of the oracle over the
\* items merged with an answer so far, in drain order, starting from the
\* old_content snapshot.
C29_ContentThreaded ==
  \A u \in Users :
    (task[u].pc # "idle" /\ View(u).state = PROCESSING_DATA) =>
      View(u).current_content =
        FoldMerged(View(u).old_content, hist[u].log, hist[u].accepted.text_data)

\* The handling of a message of u that is no command: a text, a URL,
\* attachments or the 'done' word.
OrdinaryMessage(u) ==
  \/ MsgOther(u)
  \/ \E txt \in TextInputs, atts \in AttInputs : MsgData(u, txt, atts)
  \/ \E exists \in BOOLEAN : MsgDone(u, exists)
  \/ \E t \in Texts : MsgSubjectName(u, t)
  \/ \E t \in 0..MaxText : MsgConspectName(u, t)

\* C30: while the session of a user is in PROCESSING_DATA, the handling of
\* an ordinary message of that user changes neither the session (state,
\* buckets, old_content, current_content) nor the drain loop nor the
\* repository.
C30_ProcessingIgnoresMessages ==
  [][\A u \in Users :
       (user_states[u].state = PROCESSING_DATA /\ OrdinaryMessage(u)) =>
         /\ user_states' = user_states
         /\ task' = task
         /\ subjects' = subjects /\ conspects' = conspects]_vars

C30_Witness ==
  \E u \in Users :
    /\ last = Ignored
    /\ user_states[u].state = PROCESSING_DATA
    /\ StillPending(user_states[u])
    /\ task[u].pc = "call" /\ task[u].live
    /\ \A w \in Users \ {u} : user_states[w] = Blank

\* C31: a session that awaits data is a session of a stored note: when the
\* write of the repository fails during note creation, the session does
\* not proceed to WAITING_FOR_CONSPECT_DATA.
C31_NoSessionForUnstoredNote ==
  \A u \in Users :
    user_states[u].state = WAITING_FOR_CONSPECT_DATA =>
      get_conspect_by_id(conspects, user_states[u].course, user_states[u].subject,
                         user_states[u].conspect_id) # NoNote

\* C32: a keep_old or save_new button press of a user whose session is not
\* in WAITING_FOR_VERSION_CHOICE for the note of the button (no session,
\* another state, a button of another note) changes neither the stored
\* notes nor any session, scratch file or drain loop.
C32_StaleChoiceIgnored ==
  [][\A u \in Users, a \in {"keep_old", "save_new"}, id \in ButtonIds :
       (/\ CbVersionChoice(u, a, id)
        /\ \/ user_states[u].state # WAITING_FOR_VERSION_CHOICE
           \/ user_states[u].conspect_id # id) =>
         /\ conspects' = conspects
         /\ user_states' = user_states
         /\ txt_files' = txt_files
         /\ task' = task]_vars

\* A choice was ignored while the session awaits the choice for one note and
\* another note, whose buttons are stale, is stored with other content.
C32_Witness ==
  \E u \in Users :
    /\ last = Ignored
    /\ user_states[u].state = WAITING_FOR_VERSION_CHOICE
    /\ user_states[u].new_content # user_states[u].old_content
    /\ \E n \in AllNotes(conspects) : n.id # user_states[u].conspect_id

\* C33: while the drain loop of a user is running or suspended between
\* items, the session record of that user is the PROCESSING_DATA record the
\* loop works on: no button press or start command of the user replaces or
\* removes it before finalize_processing has run.
C33_SessionHeldDuringMerge ==
  \A u \in Users :
    task[u].pc # "idle" =>
      /\ task[u].live
      /\ user_states[u].state = PROCESSING_DATA

====
